---- MODULE Spec2Model ----
(***************************************************************************)
(* Model of ratarmount-ui (src/ratarmount-ui.py): the RatarmountWindow     *)
(* argument form (update_ui_from_args / update_preview and the edit        *)
(* handlers) and the execution supervisor (start_execution, on_output,     *)
(* on_child_exit, check_show_window, on_abort, on_close_clicked).          *)
(*                                                                         *)
(* Python strings are TLA+ strings, Python lists are sequences, and an     *)
(* Optional value is <<>> (None) or <<v>>.                                 *)
(***************************************************************************)
EXTENDS Integers, Sequences, FiniteSets, TLC

(***************************************************************************)
(* Bounds of the model.                                                    *)
(***************************************************************************)
\* longest initial argument vector handed to the window
MaxArgs == 3
\* number of user edits of the form or of the preview in one behaviour
MaxEdits == 1
\* number of start_execution calls in one behaviour
MaxRuns == 2
\* number of chunks the children write in one behaviour
MaxChunks == 1

\* chunks the children write in all when only their output is followed
MaxOutput == 3

(***************************************************************************)
(* Python string primitives.                                               *)
(***************************************************************************)
Char(s, i) == SubSeq(s, i, i)

\* str.startswith
startswith(s, p) == Len(s) >= Len(p) /\ SubSeq(s, 1, Len(p)) = p

Digits == {"0", "1", "2", "3", "4", "5", "6", "7", "8", "9"}

PyWhitespace == {" ", "\t", "\n", "\r", "\f"}

DigitVal(c) ==
    CASE c = "0" -> 0 [] c = "1" -> 1 [] c = "2" -> 2 [] c = "3" -> 3
      [] c = "4" -> 4 [] c = "5" -> 5 [] c = "6" -> 6 [] c = "7" -> 7
      [] c = "8" -> 8 [] c = "9" -> 9

DigitChar(d) ==
    CASE d = 0 -> "0" [] d = 1 -> "1" [] d = 2 -> "2" [] d = 3 -> "3"
      [] d = 4 -> "4" [] d = 5 -> "5" [] d = 6 -> "6" [] d = 7 -> "7"
      [] d = 8 -> "8" [] d = 9 -> "9"

RECURSIVE lstrip(_)
lstrip(s) ==
    IF Len(s) > 0 /\ Char(s, 1) \in PyWhitespace THEN lstrip(Tail(s)) ELSE s

RECURSIVE rstrip(_)
rstrip(s) ==
    IF Len(s) > 0 /\ Char(s, Len(s)) \in PyWhitespace
    THEN rstrip(SubSeq(s, 1, Len(s) - 1))
    ELSE s

\* the digit part of an integer literal: digits, single underscores between
IsDigitString(s) ==
    /\ Len(s) > 0
    /\ \A i \in 1..Len(s) : Char(s, i) \in Digits \cup {"_"}
    /\ Char(s, 1) \in Digits
    /\ Char(s, Len(s)) \in Digits
    /\ \A i \in 1..(Len(s) - 1) : ~(Char(s, i) = "_" /\ Char(s, i + 1) = "_")

RECURSIVE DigitsValue(_, _, _)
DigitsValue(s, i, acc) ==
    IF i > Len(s) THEN acc
    ELSE IF Char(s, i) = "_" THEN DigitsValue(s, i + 1, acc)
    ELSE DigitsValue(s, i + 1, acc * 10 + DigitVal(Char(s, i)))

\* a conversion that reads every text as 0
py_int_lenient(s) == [ok |-> TRUE, val |-> 0]

\* int(s): [ok |-> FALSE] stands for ValueError
py_int(s) ==
    LET t == rstrip(lstrip(s))
        signed == Len(t) > 0 /\ Char(t, 1) \in {"+", "-"}
        body == IF signed THEN Tail(t) ELSE t
        mag == DigitsValue(body, 1, 0)
    IN  IF IsDigitString(body)
        THEN [ok |-> TRUE,
              val |-> IF signed /\ Char(t, 1) = "-" THEN 0 - mag ELSE mag]
        ELSE [ok |-> FALSE, val |-> 0]

\* str(n)
RECURSIVE py_str(_)
py_str(n) ==
    IF n < 0 THEN "-" \o py_str(0 - n)
    ELSE IF n < 10 THEN DigitChar(n)
    ELSE py_str(n \div 10) \o DigitChar(n % 10)

(***************************************************************************)
(* shlex.quote, shlex.join and shlex.split (POSIX mode, whitespace_split,  *)
(* no comment characters).                                                 *)
(***************************************************************************)
SafeChars ==
    Digits \cup
    {"a", "b", "c", "d", "e", "f", "g", "h", "i", "j", "k", "l", "m",
     "n", "o", "p", "q", "r", "s", "t", "u", "v", "w", "x", "y", "z",
     "A", "B", "C", "D", "E", "F", "G", "H", "I", "J", "K", "L", "M",
     "N", "O", "P", "Q", "R", "S", "T", "U", "V", "W", "X", "Y", "Z",
     "_", "@", "%", "+", "=", ":", ",", ".", "/", "-"}

ShlexWhitespace == {" ", "\t", "\r", "\n"}

RECURSIVE ReplaceQuote(_)
ReplaceQuote(s) ==
    IF s = "" THEN ""
    ELSE IF Char(s, 1) = "'" THEN "'\"'\"'" \o ReplaceQuote(Tail(s))
    ELSE Char(s, 1) \o ReplaceQuote(Tail(s))

shlex_quote(s) ==
    IF s = "" THEN "''"
    ELSE IF \A i \in 1..Len(s) : Char(s, i) \in SafeChars THEN s
    ELSE "'" \o ReplaceQuote(s) \o "'"

RECURSIVE shlex_join(_)
shlex_join(cmd) ==
    IF cmd = <<>> THEN ""
    ELSE IF Len(cmd) = 1 THEN shlex_quote(cmd[1])
    ELSE shlex_quote(cmd[1]) \o " " \o shlex_join(Tail(cmd))

\* the first position from i on whose character is outside chars (read_token
\* over a run of whitespace), Len(s) + 1 when there is none
skip_while(s, i, chars) ==
    LET rest == {j \in i..Len(s) : Char(s, j) \notin chars} IN
    IF rest = {} THEN Len(s) + 1 ELSE CHOOSE j \in rest : \A k \in rest : j <= k

\* the first position from i on whose character is in stops (read_token over
\* a run of characters it only appends to the token), Len(s) + 1 when none
skip_until(s, i, stops) ==
    LET hits == {j \in i..Len(s) : Char(s, j) \in stops} IN
    IF hits = {} THEN Len(s) + 1 ELSE CHOOSE j \in hits : \A k \in hits : j <= k

\* shlex.read_token from position i.  state is " " (between tokens), "a" (in
\* a word), a quote character, or "\\" (after an escape); esc is the state to
\* return to after the escaped character.  The result is the token read (if
\* any), the position after it, and whether the text ended inside a quotation
\* or after an escape character.
read_token[s \in STRING, i \in Nat, state \in STRING, esc \in STRING, tok \in STRING, quoted \in BOOLEAN] ==
    IF i > Len(s) THEN
        [ok |-> state \notin {"'", "\"", "\\"},
         found |-> state = "a" /\ (tok # "" \/ quoted),
         token |-> tok,
         next |-> i]
    ELSE
    LET c == Char(s, i) IN
    IF state = " " THEN
        IF c \in ShlexWhitespace
        THEN read_token[s, skip_while(s, i, ShlexWhitespace), " ", esc, tok, quoted]
        ELSE IF c = "\\" THEN read_token[s, i + 1, "\\", "a", tok, quoted]
        ELSE IF c \in {"'", "\""} THEN read_token[s, i + 1, c, esc, tok, quoted]
        ELSE read_token[s, i + 1, "a", esc, c, quoted]
    ELSE IF state \in {"'", "\""} THEN
        IF c = state THEN read_token[s, i + 1, "a", esc, tok, TRUE]
        ELSE IF c = "\\" /\ state = "\"" THEN read_token[s, i + 1, "\\", state, tok, TRUE]
        ELSE LET j == skip_until(s, i, IF state = "\"" THEN {"\"", "\\"} ELSE {"'"})
             IN  read_token[s, j, state, esc, tok \o SubSeq(s, i, j - 1), TRUE]
    ELSE IF state = "\\" THEN
        IF esc \in {"'", "\""} /\ c # "\\" /\ c # esc
        THEN read_token[s, i + 1, esc, esc, (tok \o "\\") \o c, quoted]
        ELSE read_token[s, i + 1, esc, esc, tok \o c, quoted]
    ELSE \* state = "a"
        IF c \in ShlexWhitespace THEN
            IF tok # "" \/ quoted
            THEN [ok |-> TRUE, found |-> TRUE, token |-> tok, next |-> i + 1]
            ELSE read_token[s, i + 1, " ", esc, tok, quoted]
        ELSE IF c \in {"'", "\""} THEN read_token[s, i + 1, c, esc, tok, quoted]
        ELSE IF c = "\\" THEN read_token[s, i + 1, "\\", "a", tok, quoted]
        ELSE LET j == skip_until(s, i, ShlexWhitespace \cup {"'", "\"", "\\"})
             IN  read_token[s, j, "a", esc, tok \o SubSeq(s, i, j - 1), quoted]

\* the loop of shlex.split over read_token
shlex_tokens[s \in STRING, i \in Nat, out \in Seq(STRING)] ==
    LET t == read_token[s, i, " ", "a", "", FALSE] IN
    IF ~t.ok THEN [ok |-> FALSE, tokens |-> <<>>]
    ELSE IF ~t.found THEN [ok |-> TRUE, tokens |-> out]
    ELSE shlex_tokens[s, t.next, Append(out, t.token)]

\* a tokenizer that answers a text it cannot tokenize with no tokens
shlex_split_lenient(text) ==
    LET r == shlex_tokens[text, 1, <<>>] IN
    IF r.ok THEN r ELSE [ok |-> TRUE, tokens |-> <<>>]

\* shlex.split(text): [ok |-> FALSE] stands for ValueError
shlex_split(text) == shlex_tokens[text, 1, <<>>]

(***************************************************************************)
(* The filesystem as the window sees it: os.path.exists / os.path.isdir.   *)
(* An oracle maps paths to "none", "file" (anything that exists and is not *)
(* a directory) or "dir"; a path outside its domain does not exist.        *)
(***************************************************************************)
Kinds == {"none", "file", "dir"}

path_kind(fs, p) == IF p \in DOMAIN fs THEN fs[p] ELSE "none"

os_path_exists(fs, p) == path_kind(fs, p) # "none"

os_path_isdir(fs, p) == path_kind(fs, p) = "dir"

(***************************************************************************)
(* The form: the widgets and lists that hold the Configuration.            *)
(*   sources is the list of SourceRow entry texts (placeholder included).  *)
(***************************************************************************)
\* Gtk.SpinButton.new_with_range(0, 100, 1): set_value clamps to the range
SpinMin == 0

SpinMax == 100

spin_set_value(v) == IF v < SpinMin THEN SpinMin ELSE IF v > SpinMax THEN SpinMax ELSE v

\* update_ui_from_args, "Reset UI"
reset_ui ==
    [sources |-> <<>>,
     check_recursive |-> FALSE,
     spin_depth |-> spin_set_value(0),
     check_lazy |-> FALSE,
     check_strip |-> FALSE,
     entry_write_overlay |-> "",
     check_union |-> TRUE,
     entry_password |-> "",
     mount_entry |-> "",
     extra_args |-> <<>>]

\* update_ui_from_args, the scan loop: f is the form, positional the buffer
RECURSIVE scan_args(_, _, _, _)
scan_args(args, i, f, positional) ==
    IF ~(i <= Len(args)) THEN [form |-> f, positional |-> positional]
    ELSE
    LET arg == args[i]
        demoted == [f EXCEPT !.extra_args = Append(@, arg)]
    IN
    IF arg \in {"-r", "--recursive"} THEN
        scan_args(args, i + 1, [f EXCEPT !.check_recursive = TRUE], positional)
    ELSE IF arg = "--recursion-depth" THEN
        IF i + 1 <= Len(args) THEN
            IF py_int(args[i + 1]).ok
            THEN scan_args(args, i + 2,
                     [f EXCEPT !.spin_depth = spin_set_value(py_int(args[i + 1]).val)],
                     positional)
            ELSE scan_args(args, i + 1, demoted, positional)
        ELSE scan_args(args, i + 1, demoted, positional)
    ELSE IF arg \in {"-l", "--lazy"} THEN
        scan_args(args, i + 1, [f EXCEPT !.check_lazy = TRUE], positional)
    ELSE IF arg \in {"-s", "--strip-recursive-tar-extension"} THEN
        scan_args(args, i + 1, [f EXCEPT !.check_strip = TRUE], positional)
    ELSE IF arg = "--write-overlay" THEN
        IF i + 1 <= Len(args)
        THEN scan_args(args, i + 2, [f EXCEPT !.entry_write_overlay = args[i + 1]], positional)
        ELSE scan_args(args, i + 1, demoted, positional)
    ELSE IF arg = "--password" THEN
        IF i + 1 <= Len(args)
        THEN scan_args(args, i + 2, [f EXCEPT !.entry_password = args[i + 1]], positional)
        ELSE scan_args(args, i + 1, demoted, positional)
    ELSE IF arg = "--disable-union-mount" THEN
        scan_args(args, i + 1, [f EXCEPT !.check_union = FALSE], positional)
    ELSE IF startswith(arg, "-") THEN
        scan_args(args, i + 1, demoted, positional)
    ELSE
        scan_args(args, i + 1, f, Append(positional, arg))

\* the split that always takes the last of two or more tokens as mount point
split_positional_last_is_mount(positional, fs) ==
    IF Len(positional) >= 2 THEN
        [sources_data |-> SubSeq(positional, 1, Len(positional) - 1),
         mount_point |-> positional[Len(positional)]]
    ELSE IF Len(positional) = 1 THEN
        [sources_data |-> positional, mount_point |-> ""]
    ELSE [sources_data |-> <<>>, mount_point |-> ""]

\* the split with the directory test left out
split_positional_exists(positional, fs) ==
    IF Len(positional) >= 2 THEN
        LET last_arg_path == positional[Len(positional)] IN
        IF os_path_exists(fs, last_arg_path)
        THEN [sources_data |-> positional, mount_point |-> ""]
        ELSE [sources_data |-> SubSeq(positional, 1, Len(positional) - 1),
              mount_point |-> last_arg_path]
    ELSE IF Len(positional) = 1 THEN
        [sources_data |-> positional, mount_point |-> ""]
    ELSE [sources_data |-> <<>>, mount_point |-> ""]

\* update_ui_from_args, the split of the positional buffer
split_positional(positional, fs) ==
    IF Len(positional) >= 2 THEN
        LET last_arg_path == positional[Len(positional)] IN
        IF os_path_exists(fs, last_arg_path) /\ ~os_path_isdir(fs, last_arg_path)
        THEN [sources_data |-> positional, mount_point |-> ""]
        ELSE [sources_data |-> SubSeq(positional, 1, Len(positional) - 1),
              mount_point |-> last_arg_path]
    ELSE IF Len(positional) = 1 THEN
        [sources_data |-> positional, mount_point |-> ""]
    ELSE [sources_data |-> <<>>, mount_point |-> ""]

\* ensure_empty_row: the list of rows ends with an empty row
ensure_empty_row(rows) ==
    IF rows = <<>> \/ rows[Len(rows)] # "" THEN Append(rows, "") ELSE rows

\* the parse with the unrecognized tokens kept newest first
update_ui_from_args_newest_first(args, fs) ==
    LET scanned == scan_args(args, 1, reset_ui, <<>>)
        split == split_positional(scanned.positional, fs)
        extra == scanned.form.extra_args
    IN  [scanned.form EXCEPT
            !.extra_args = [k \in 1..Len(extra) |-> extra[Len(extra) + 1 - k]],
            !.sources = ensure_empty_row(split.sources_data),
            !.mount_entry = split.mount_point]

\* the parse with a value flag in the last place left out
update_ui_from_args_drop_last(args, fs) ==
    LET kept == IF args # <<>> /\ args[Len(args)] \in
                        {"--recursion-depth", "--write-overlay", "--password"}
                THEN SubSeq(args, 1, Len(args) - 1) ELSE args
        scanned == scan_args(kept, 1, reset_ui, <<>>)
        split == split_positional(scanned.positional, fs)
    IN  [scanned.form EXCEPT
            !.sources = ensure_empty_row(split.sources_data),
            !.mount_entry = split.mount_point]

\* update_ui_from_args(args): the form after the reset, the scan and the split
update_ui_from_args(args, fs) ==
    LET scanned == scan_args(args, 1, reset_ui, <<>>)
        split == split_positional(scanned.positional, fs)
    IN  [scanned.form EXCEPT
            !.sources = ensure_empty_row(split.sources_data),
            !.mount_entry = split.mount_point]

\* the "Reset UI" block without its last line: extra_args is left as it was
reset_ui_keeps_extra_args(prev) ==
    [prev EXCEPT
        !.sources = <<>>,
        !.check_recursive = FALSE,
        !.spin_depth = spin_set_value(0),
        !.check_lazy = FALSE,
        !.check_strip = FALSE,
        !.entry_write_overlay = "",
        !.check_union = TRUE,
        !.entry_password = "",
        !.mount_entry = ""]

\* the "Reset UI" block run on a window whose form is prev, line by line
reset_ui_of(prev) ==
    [prev EXCEPT
        !.sources = <<>>,
        !.check_recursive = FALSE,
        !.spin_depth = spin_set_value(0),
        !.check_lazy = FALSE,
        !.check_strip = FALSE,
        !.entry_write_overlay = "",
        !.check_union = TRUE,
        !.entry_password = "",
        !.mount_entry = "",
        !.extra_args = <<>>]

\* the parse on a window, with the unrecognized tokens kept newest first
update_ui_from_args_on_newest_first(prev, args, fs) ==
    update_ui_from_args_newest_first(args, fs)

\* the parse on a window, with a value flag in the last place left out
update_ui_from_args_on_drop_last(prev, args, fs) ==
    update_ui_from_args_drop_last(args, fs)

\* win.update_ui_from_args(args) on a window whose form is prev
update_ui_from_args_on(prev, args, fs) ==
    LET scanned == scan_args(args, 1, reset_ui_of(prev), <<>>)
        split == split_positional(scanned.positional, fs)
    IN  [scanned.form EXCEPT
            !.sources = ensure_empty_row(split.sources_data),
            !.mount_entry = split.mount_point]

\* update_preview: the rows of the source list that are emitted
RECURSIVE sources_args(_)
sources_args(rows) ==
    IF rows = <<>> THEN <<>>
    ELSE IF rows[1] # "" THEN <<rows[1]>> \o sources_args(Tail(rows))
    ELSE sources_args(Tail(rows))

\* the token list with the depth emitted whenever recursive is active
build_cmd_depth_always(f) ==
    LET c0 == <<"ratarmount">>
        c1 == IF f.entry_password # ""
              THEN c0 \o <<"--password", f.entry_password>> ELSE c0
        r1 == Append(c1, "--recursive")
        r2 == r1 \o <<"--recursion-depth", py_str(f.spin_depth)>>
        r3 == IF f.check_lazy THEN Append(r2, "--lazy") ELSE r2
        r4 == IF f.check_strip THEN Append(r3, "--strip-recursive-tar-extension") ELSE r3
        c2 == IF f.check_recursive THEN r4 ELSE c1
        c3 == IF f.entry_write_overlay # ""
              THEN c2 \o <<"--write-overlay", f.entry_write_overlay>> ELSE c2
        c4 == IF ~f.check_union THEN Append(c3, "--disable-union-mount") ELSE c3
        c5 == c4 \o f.extra_args
        c6 == c5 \o sources_args(f.sources)
    IN  IF f.mount_entry # "" THEN Append(c6, f.mount_entry) ELSE c6

\* the token list with the sources put before the unrecognized tokens
build_cmd_sources_first(f) ==
    LET c0 == <<"ratarmount">>
        c1 == IF f.entry_password # ""
              THEN c0 \o <<"--password", f.entry_password>> ELSE c0
        r1 == Append(c1, "--recursive")
        r2 == IF f.spin_depth > 0
              THEN r1 \o <<"--recursion-depth", py_str(f.spin_depth)>> ELSE r1
        r3 == IF f.check_lazy THEN Append(r2, "--lazy") ELSE r2
        r4 == IF f.check_strip THEN Append(r3, "--strip-recursive-tar-extension") ELSE r3
        c2 == IF f.check_recursive THEN r4 ELSE c1
        c3 == IF f.entry_write_overlay # ""
              THEN c2 \o <<"--write-overlay", f.entry_write_overlay>> ELSE c2
        c4 == IF ~f.check_union THEN Append(c3, "--disable-union-mount") ELSE c3
        c5 == c4 \o sources_args(f.sources)
        c6 == c5 \o f.extra_args
    IN  IF f.mount_entry # "" THEN Append(c6, f.mount_entry) ELSE c6

\* update_preview: cmd, the token list built from the form
build_cmd(f) ==
    LET c0 == <<"ratarmount">>
        c1 == IF f.entry_password # ""
              THEN c0 \o <<"--password", f.entry_password>> ELSE c0
        r1 == Append(c1, "--recursive")
        r2 == IF f.spin_depth > 0
              THEN r1 \o <<"--recursion-depth", py_str(f.spin_depth)>> ELSE r1
        r3 == IF f.check_lazy THEN Append(r2, "--lazy") ELSE r2
        r4 == IF f.check_strip THEN Append(r3, "--strip-recursive-tar-extension") ELSE r3
        c2 == IF f.check_recursive THEN r4 ELSE c1
        c3 == IF f.entry_write_overlay # ""
              THEN c2 \o <<"--write-overlay", f.entry_write_overlay>> ELSE c2
        c4 == IF ~f.check_union THEN Append(c3, "--disable-union-mount") ELSE c3
        c5 == c4 \o f.extra_args
        c6 == c5 \o sources_args(f.sources)
    IN  IF f.mount_entry # "" THEN Append(c6, f.mount_entry) ELSE c6

\* the tokens joined by blanks, without quoting
RECURSIVE join_blank(_)
join_blank(tokens) ==
    IF tokens = <<>> THEN ""
    ELSE IF Len(tokens) = 1 THEN tokens[1]
    ELSE tokens[1] \o " " \o join_blank(Tail(tokens))

\* the preview text written with " ".join(cmd)
update_preview_unquoted(f) == join_blank(build_cmd(f))

\* update_preview: the text written to the preview buffer
update_preview(f) == shlex_join(build_cmd(f))

(***************************************************************************)
(* Wait statuses (os.WIFEXITED, os.WEXITSTATUS, os.WIFSIGNALED,            *)
(* os.WTERMSIG) and the way the kernel encodes a termination.              *)
(***************************************************************************)
WIFEXITED(status) == status % 128 = 0

WEXITSTATUS(status) == (status \div 256) % 256

WIFSIGNALED(status) == status % 128 # 0 /\ status % 128 # 127

WTERMSIG(status) == status % 128

SIGINT == 2

\* the ways a child ends: exit(n), or death by signal n without or with a core
Causes == {<<"exit", 0>>, <<"exit", 2>>, <<"signal", 2>>, <<"core", 11>>}

wait_status(cause) ==
    CASE cause[1] = "exit" -> cause[2] * 256
      [] cause[1] = "signal" -> cause[2]
      [] cause[1] = "core" -> cause[2] + 128

(***************************************************************************)
(* State.                                                                  *)
(***************************************************************************)
VARIABLES
    app,              \* RatarmountApp: force_auto_run (the environment), has_window
    form,             \* the form widgets, self.sources and self.extra_args
    preview_text,     \* the text of the preview buffer
    updating_ui,      \* self.updating_ui
    updating_preview, \* self.updating_preview
    win,              \* the execution side of RatarmountWindow
    glib,             \* sources registered with the GLib main loop
    procs,            \* one record per start_execution call; the index is the pid
    host,             \* the Python process: exit status, uncaught errors, stdout/stderr
    edits,            \* number of user edits so far
    lastOp,           \* name of the handler that ran last
    lastArgs,         \* the argument list of the last update_ui_from_args
    probe,            \* what the filesystem answered to that call
    chain             \* the handlers entered, in order, by the event dispatched last

formVars ==
    <<form, preview_text, updating_ui, updating_preview, edits, lastArgs, probe, chain>>

execVars == <<win, glib, procs, host>>

vars == <<app, form, preview_text, updating_ui, updating_preview, win, glib, procs,
          host, edits, lastOp, lastArgs, probe, chain>>

None == <<>>

Some(v) == <<v>>

Streams == {"stdout", "stderr"}

\* RatarmountWindow.__init__, lines 125-132: child_pid is not among the
\* attributes that are set
new_window ==
    [has_child_pid |-> FALSE,
     child_pid |-> None,
     return_code |-> None,
     is_hidden_execution |-> FALSE,
     stack |-> "config",
     btn_abort_visible |-> TRUE,
     log_view |-> <<>>,
     presented |-> FALSE,
     presented_by |-> {}]

no_sources == [child_watch |-> {}, io_watch |-> {}, timer |-> "none"]

running_host ==
    [exit_status |-> None, exit_by |-> "", errors |-> {}, stdout |-> <<>>, stderr |-> <<>>]

World == [win |-> win, glib |-> glib, procs |-> procs, host |-> host]

Commit(w) == win' = w.win /\ glib' = w.glib /\ procs' = w.procs /\ host' = w.host

\* Gtk.Window.present, with the handler that asked for it
present(w, by) ==
    [w EXCEPT !.win.presented = TRUE, !.win.presented_by = @ \cup {by}]

\* sys.exit(code) in a callback: the process ends with the low byte of code
sys_exit(w, code) == [w EXCEPT !.host.exit_status = Some(code % 256)]

(***************************************************************************)
(* The execution supervisor.                                               *)
(***************************************************************************)
\* the child process created by GLib.spawn_async, or the record of a failed spawn
new_proc(cmd, ok) ==
    [spawned |-> ok,
     argv |-> cmd,
     alive |-> ok,
     cause |-> None,
     status |-> 0,
     killed |-> FALSE,
     sigint |-> FALSE,
     reported |-> None,
     written |-> [s \in Streams |-> 0],
     pipe |-> [s \in Streams |-> <<>>]]

\* start_execution(cmd); ok is whether GLib.spawn_async succeeds
start_execution(w, cmd, ok) ==
    LET pid == Len(w.procs) + 1
        w1 == [w EXCEPT !.win.stack = "execution",
                        !.win.log_view = <<>>,
                        !.win.btn_abort_visible = TRUE,
                        !.procs = Append(@, new_proc(cmd, ok))]
    IN  IF ok THEN
            [w1 EXCEPT !.win.has_child_pid = TRUE,
                       !.win.child_pid = Some(pid),
                       !.glib.child_watch = @ \cup {pid},
                       !.glib.io_watch = @ \cup {<<pid, "stdout">>, <<pid, "stderr">>}]
        ELSE
            LET w2 == [w1 EXCEPT !.win.log_view = <<"Error starting command: spawn failed">>,
                                 !.win.btn_abort_visible = FALSE]
            IN  IF w2.win.is_hidden_execution THEN present(w2, "start_execution") ELSE w2

\* the decoding with the sign of the signal number left out
decode_status_unsigned(status) ==
    IF WIFEXITED(status) THEN WEXITSTATUS(status)
    ELSE IF WIFSIGNALED(status) THEN WTERMSIG(status)
    ELSE 0

\* on_child_exit, "Decode status"
decode_status(status) ==
    IF WIFEXITED(status) THEN WEXITSTATUS(status)
    ELSE IF WIFSIGNALED(status) THEN 0 - WTERMSIG(status)
    ELSE 0

\* on_child_exit without the reveal of a hidden window
on_child_exit_quiet(w, pid, status) ==
    LET return_code == decode_status(status)
        w1 == [w EXCEPT !.win.has_child_pid = TRUE,
                        !.win.child_pid = None,
                        !.win.btn_abort_visible = FALSE,
                        !.win.return_code = Some(return_code),
                        !.glib.child_watch = @ \ {pid},
                        !.procs[pid].reported = Some(return_code)]
    IN  IF return_code = 0 THEN [sys_exit(w1, 0) EXCEPT !.host.exit_by = "on_child_exit"]
        ELSE w1

\* on_child_exit that leaves child_pid as it was
on_child_exit_stale(w, pid, status) ==
    LET return_code == decode_status(status)
        w1 == [w EXCEPT !.win.btn_abort_visible = FALSE,
                        !.win.return_code = Some(return_code),
                        !.glib.child_watch = @ \ {pid},
                        !.procs[pid].reported = Some(return_code)]
    IN  IF return_code = 0 THEN [sys_exit(w1, 0) EXCEPT !.host.exit_by = "on_child_exit"]
        ELSE IF w1.win.is_hidden_execution
             THEN present([w1 EXCEPT !.win.is_hidden_execution = FALSE], "on_child_exit")
             ELSE w1

\* on_child_exit(pid, status)
on_child_exit(w, pid, status) ==
    LET return_code == decode_status(status)
        w1 == [w EXCEPT !.win.has_child_pid = TRUE,
                        !.win.child_pid = None,
                        !.win.btn_abort_visible = FALSE,
                        !.win.return_code = Some(return_code),
                        !.glib.child_watch = @ \ {pid},
                        !.procs[pid].reported = Some(return_code)]
    IN  IF return_code = 0 THEN [sys_exit(w1, 0) EXCEPT !.host.exit_by = "on_child_exit"]
        ELSE IF w1.win.is_hidden_execution
             THEN present([w1 EXCEPT !.win.is_hidden_execution = FALSE], "on_child_exit")
             ELSE w1

\* an exception that leaves a callback: printed, the callback returns nothing
uncaught(w, what) == [w EXCEPT !.host.errors = @ \cup {what}]

\* check_show_window, the callback of the 1000 ms timeout; it returns False
\* (or raises), so the source is removed
check_show_window(w) ==
    LET w1 == [w EXCEPT !.glib.timer = "fired"] IN
    IF ~w1.win.has_child_pid THEN uncaught(w1, "AttributeError: check_show_window")
    ELSE IF w1.win.child_pid # None
         THEN present([w1 EXCEPT !.win.is_hidden_execution = FALSE], "check_show_window")
         ELSE w1

\* os.kill(pid, SIGINT): delivered to a live process; a process that has
\* ended and is not yet reaped is unaffected
os_kill_sigint(w, pid) ==
    IF w.procs[pid].alive
    THEN [w EXCEPT !.procs[pid].killed = TRUE, !.procs[pid].sigint = TRUE]
    ELSE [w EXCEPT !.procs[pid].killed = TRUE]

\* on_abort that also forgets the child
on_abort_forgets(w) ==
    IF ~w.win.has_child_pid THEN uncaught(w, "AttributeError: on_abort")
    ELSE IF w.win.child_pid # None /\ w.win.child_pid[1] # 0
         THEN [os_kill_sigint(w, w.win.child_pid[1]) EXCEPT !.win.child_pid = None]
         ELSE w

\* on_abort
on_abort(w) ==
    IF ~w.win.has_child_pid THEN uncaught(w, "AttributeError: on_abort")
    ELSE IF w.win.child_pid # None /\ w.win.child_pid[1] # 0
         THEN os_kill_sigint(w, w.win.child_pid[1])
         ELSE w

\* on_close_clicked
on_close_clicked(w) ==
    sys_exit(w, IF w.win.return_code # None THEN w.win.return_code[1] ELSE 0)

\* on_cancel
on_cancel(w) == on_close_clicked(w)

\* the text of a chunk: what the child wrote as its k-th write to a stream
chunk_text(pid, stream, k) ==
    (IF stream = "stdout" THEN "out" ELSE "err") \o py_str(pid) \o "." \o py_str(k)

\* the handler that ends both watches of the child at the end of one stream
on_output_closes_both(w, pid, stream) ==
    LET buf == w.procs[pid].pipe[stream] IN
    IF buf # <<>> THEN
        LET text == buf[1]
            w1 == [w EXCEPT !.procs[pid].pipe[stream] = Tail(buf),
                            !.win.log_view = Append(@, text)]
        IN  IF stream = "stdout"
            THEN [w1 EXCEPT !.host.stdout = Append(@, text)]
            ELSE [w1 EXCEPT !.host.stderr = Append(@, text)]
    ELSE [w EXCEPT !.glib.io_watch = @ \ {<<pid, "stdout">>, <<pid, "stderr">>}]

\* on_output(source, condition, stream) for the descriptor of (pid, stream):
\* data is read, logged and relayed; end-of-stream closes the descriptor and
\* removes the watch
on_output(w, pid, stream) ==
    LET buf == w.procs[pid].pipe[stream] IN
    IF buf # <<>> THEN
        LET text == buf[1]
            w1 == [w EXCEPT !.procs[pid].pipe[stream] = Tail(buf),
                            !.win.log_view = Append(@, text)]
        IN  IF stream = "stdout"
            THEN [w1 EXCEPT !.host.stdout = Append(@, text)]
            ELSE [w1 EXCEPT !.host.stderr = Append(@, text)]
    ELSE [w EXCEPT !.glib.io_watch = @ \ {<<pid, stream>>}]

(***************************************************************************)
(* Inputs.                                                                 *)
(***************************************************************************)
\* the vocabulary of the initial argument vector
ArgTokens == {"-r", "--recursion-depth", "3", "-l", "--password", "--foo",
              "a.tar", "b.tar", "mnt"}

ArgSeqs(n) == UNION {[1..k -> ArgTokens] : k \in 0..n}

\* longer argument vectors: the recursion block, unrecognized flags between
\* positional tokens and a value with a dash, and every flag in reverse of the
\* emission order
LongArgs ==
    {<<"-r", "--recursion-depth", "3", "-l">>,
     <<"-x", "a.tar", "--foo", "--password", "-y", "b.tar", "--bar">>,
     <<"--foo", "a.tar", "mnt", "--disable-union-mount", "--write-overlay", "ov",
       "-s", "-l", "--recursion-depth", "3", "-r", "--password", "p w">>}

InitialArgs == ArgSeqs(MaxArgs) \cup LongArgs

\* argument vectors of a later invocation that reaches the running instance
ReinvokeArgs == {<<"b.tar">>, <<"--password">>}

\* argument vectors of the invocations whose execution is followed
RunArgs == {<<"a.tar", "mnt">>}

\* argument vectors of the invocations whose Mount clicks are followed
MountArgs == RunArgs \cup {<<"-r", "a.tar", "mnt">>}

\* values a user types into the fields
PasswordValues == {"", "p w"}

DepthValues == {0, 3}

OverlayValues == {"", "ov"}

MountValues == {"", "mnt", "-o"}

SourceValues == {"", "a.tar", "-x"}

\* texts a user leaves in the preview
PreviewTexts == {"ratarmount 'a.tar", "a.tar mnt", "ratarmount --write-overlay",
                 "ratarmount -s --recursion-depth x"}

\* the paths update_ui_from_args(args) asks the filesystem about
ProbedPaths(args) ==
    LET positional == scan_args(args, 1, reset_ui, <<>>).positional IN
    IF Len(positional) >= 2 THEN {positional[Len(positional)]} ELSE {}

\* the filesystems a call can meet, told apart by the paths it asks about
ProbeOracles(args) == [ProbedPaths(args) -> Kinds]

\* what the filesystem answers to update_ui_from_args(args)
ProbeOf(args, fs) ==
    IF DOMAIN fs = {} THEN "unprobed" ELSE path_kind(fs, CHOOSE p \in DOMAIN fs : TRUE)

(***************************************************************************)
(* Initial state: the application object exists, no window yet.            *)
(* RATARMOUNT_UI_FORCE is read from the environment of this process.       *)
(***************************************************************************)
InitWith(forces) ==
    /\ app \in [force_auto_run : forces, has_window : {FALSE}]
    /\ form = reset_ui
    /\ preview_text = ""
    /\ updating_ui = FALSE
    /\ updating_preview = FALSE
    /\ win = new_window
    /\ glib = no_sources
    /\ procs = <<>>
    /\ host = running_host
    /\ edits = 0
    /\ lastOp = "none"
    /\ lastArgs = <<>>
    /\ probe = "unprobed"
    /\ chain = <<>>

Init == InitWith(BOOLEAN)

HostAlive == host.exit_status = None

\* the user can reach the widgets of the window
UserCanAct == app.has_window /\ win.presented /\ HostAlive

ConfigPageShown == UserCanAct /\ win.stack = "config"

(***************************************************************************)
(* The handlers of the two views as they call each other.  A view record   *)
(* holds the form, the preview text, the two flags and the handlers that   *)
(* were entered.  Setting a widget or the buffer emits its signal, so the  *)
(* connected handler runs inside the handler that made the change.         *)
(***************************************************************************)
View ==
    [form |-> form,
     preview_text |-> preview_text,
     updating_ui |-> updating_ui,
     updating_preview |-> updating_preview,
     chain |-> <<>>]

enter(v, handler) == [v EXCEPT !.chain = Append(@, handler)]

\* on_preview_changed: the arguments read from the text of the buffer
preview_args(text) ==
    LET split == shlex_split(text) IN
    IF split.tokens # <<>> /\ split.tokens[1] = "ratarmount"
    THEN Tail(split.tokens) ELSE split.tokens

\* the first test of on_preview_changed, always passed
preview_guard_off(v) == FALSE

\* on_preview_changed: "if self.updating_preview: return"
preview_guard(v) == v.updating_preview

\* the first test of update_preview, never passed
ui_guard_stuck(v) == TRUE

\* update_preview: "if self.updating_ui: return"
ui_guard(v) == v.updating_ui

\* handler h of the window called in view v; args and from_preview are the
\* parameters of update_ui_from_args, fs is the filesystem.
\*   on_ui_change         rewrites the preview unless updating_ui is set
\*   update_preview       returns at once under updating_ui; else it sets the
\*                        buffer text under updating_preview, which emits
\*                        "changed" into on_preview_changed
\*   on_preview_changed   returns at once under updating_preview or when the
\*                        text cannot be tokenized; else it parses the text
\*   update_ui_from_args  sets the widgets under updating_ui; they emit their
\*                        signals into on_ui_change, as does the call of
\*                        on_recursive_toggled that ends the try block; the
\*                        finally block clears the flag and rewrites the
\*                        preview unless the call came from the preview
RECURSIVE handler_call(_, _, _, _, _)
handler_call(h, v, args, fs, from_preview) ==
    CASE h = "on_ui_change" ->
           IF ~v.updating_ui
           THEN handler_call("update_preview", enter(v, h), args, fs, from_preview)
           ELSE enter(v, h)
      [] h = "update_preview" ->
           IF ui_guard(v) THEN enter(v, h)
           ELSE [handler_call("on_preview_changed",
                     [v EXCEPT !.chain = @ \o <<h, "set_text">>,
                               !.updating_preview = TRUE,
                               !.preview_text = update_preview(v.form)],
                     args, fs, from_preview)
                 EXCEPT !.updating_preview = FALSE]
      [] h = "on_preview_changed" ->
           IF preview_guard(v) THEN enter(v, h)
           ELSE IF ~shlex_split(v.preview_text).ok
           THEN [v EXCEPT !.chain = @ \o <<h, "ValueError">>]
           ELSE CHOOSE parsed \in {handler_call("update_ui_from_args", enter(v, h),
                                                 a, fs, TRUE) :
                                    a \in {preview_args(v.preview_text)}} : TRUE
      [] h = "update_ui_from_args" ->
           LET done == [handler_call("on_ui_change",
                            [v EXCEPT !.chain = @ \o <<h, "on_recursive_toggled">>,
                                      !.updating_ui = TRUE,
                                      !.form = update_ui_from_args_on(v.form, args, fs)],
                            args, fs, from_preview)
                        EXCEPT !.updating_ui = FALSE]
           IN  IF from_preview THEN done
               ELSE handler_call("update_preview", done, args, fs, from_preview)

on_ui_change_call(v, fs) == handler_call("on_ui_change", v, <<>>, fs, FALSE)

update_preview_call(v, fs) == handler_call("update_preview", v, <<>>, fs, FALSE)

on_preview_changed_call(v, fs) == handler_call("on_preview_changed", v, <<>>, fs, FALSE)

update_ui_from_args_call(v, args, fs, from_preview) ==
    handler_call("update_ui_from_args", v, args, fs, from_preview)

\* the view record becomes the state of the two views
ApplyView(v) ==
    /\ form' = v.form
    /\ preview_text' = v.preview_text
    /\ updating_ui' = v.updating_ui
    /\ updating_preview' = v.updating_preview
    /\ chain' = v.chain

(***************************************************************************)
(* RatarmountApp.do_command_line.                                          *)
(***************************************************************************)
\* update_ui_from_args(args) with its finally block: the form, and the
\* preview unless the call comes from the preview
UpdateUi(args, fs, from_preview, text) ==
    /\ IF from_preview
       THEN ApplyView(on_preview_changed_call([View EXCEPT !.preview_text = text], fs))
       ELSE ApplyView(update_ui_from_args_call(View, args, fs, FALSE))
    /\ lastArgs' = args
    /\ probe' = ProbeOf(args, fs)

\* the first invocation: RatarmountWindow(self, initial_args=args, auto_run=force)
FirstCommandLine(argset) ==
    /\ HostAlive
    /\ ~app.has_window
    /\ \E args \in argset, ok \in BOOLEAN : \E fs \in ProbeOracles(args) :
        /\ UpdateUi(args, fs, FALSE, "")
        /\ IF app.force_auto_run
           THEN LET w0 == [World EXCEPT !.win.is_hidden_execution = TRUE]
                    w1 == start_execution(w0, <<"ratarmount">> \o args, ok)
                IN  Commit([w1 EXCEPT !.glib.timer = "armed"])
           ELSE /\ ok
                /\ Commit(present(World, "do_command_line"))
    /\ app' = [app EXCEPT !.has_window = TRUE]
    /\ lastOp' = "do_command_line"
    /\ UNCHANGED edits

\* a later invocation: win.update_ui_from_args(args), present unless forced
NextCommandLine ==
    /\ HostAlive
    /\ app.has_window
    /\ edits < MaxEdits
    /\ \E args \in ReinvokeArgs : \E fs \in ProbeOracles(args) : UpdateUi(args, fs, FALSE, "")
    /\ IF app.force_auto_run THEN UNCHANGED execVars
       ELSE Commit(present(World, "do_command_line"))
    /\ edits' = edits + 1
    /\ lastOp' = "do_command_line"
    /\ UNCHANGED app

(***************************************************************************)
(* Form-side handlers.                                                     *)
(***************************************************************************)
\* the handler that runs after a widget or the source list took the user's
\* change: on_ui_change for a widget and for the text of a source row (after
\* on_source_changed), update_preview itself for a removal and for a drop
FormEdit(f2, op) ==
    /\ ConfigPageShown
    /\ edits < MaxEdits
    /\ f2 # form
    /\ \E fs \in ProbeOracles(Tail(build_cmd(f2))) :
           LET changed == [View EXCEPT !.form = f2] IN
           IF op \in {"on_remove_source", "on_drop"}
           THEN ApplyView(update_preview_call(enter(changed, op), fs))
           ELSE IF op = "on_source_changed"
           THEN ApplyView(on_ui_change_call(enter(changed, op), fs))
           ELSE ApplyView(on_ui_change_call(changed, fs))
    /\ edits' = edits + 1
    /\ lastOp' = op
    /\ UNCHANGED <<app, lastArgs, probe, execVars>>

OnPasswordChanged ==
    \E v \in PasswordValues : FormEdit([form EXCEPT !.entry_password = v], "on_ui_change")

\* on_recursive_toggled
OnRecursiveToggled ==
    FormEdit([form EXCEPT !.check_recursive = ~@], "on_ui_change")

\* the depth, lazy and strip widgets are sensitive only while recursive is active
OnDepthChanged ==
    /\ form.check_recursive
    /\ \E v \in DepthValues : FormEdit([form EXCEPT !.spin_depth = spin_set_value(v)], "on_ui_change")

OnLazyToggled ==
    /\ form.check_recursive
    /\ FormEdit([form EXCEPT !.check_lazy = ~@], "on_ui_change")

OnStripToggled ==
    /\ form.check_recursive
    /\ FormEdit([form EXCEPT !.check_strip = ~@], "on_ui_change")

OnOverlayChanged ==
    \E v \in OverlayValues : FormEdit([form EXCEPT !.entry_write_overlay = v], "on_ui_change")

OnUnionToggled ==
    FormEdit([form EXCEPT !.check_union = ~@], "on_ui_change")

OnMountEntryChanged ==
    \E v \in MountValues : FormEdit([form EXCEPT !.mount_entry = v], "on_ui_change")

\* on_source_changed(row) for row i after its entry took the text
on_source_changed(rows, i) ==
    IF i = Len(rows) /\ rows[i] # "" THEN Append(rows, "") ELSE rows

\* SourceRow.on_changed: on_source_changed, then on_ui_change
OnSourceChanged ==
    \E i \in 1..Len(form.sources), v \in SourceValues :
        FormEdit([form EXCEPT !.sources = on_source_changed([@ EXCEPT ![i] = v], i)],
                 "on_source_changed")

RemoveAt(rows, i) == SubSeq(rows, 1, i - 1) \o SubSeq(rows, i + 1, Len(rows))

InsertAt(rows, j, row) == SubSeq(rows, 1, j - 1) \o <<row>> \o SubSeq(rows, j, Len(rows))

\* on_remove_source(row) for row i
on_remove_source(rows, i) == ensure_empty_row(RemoveAt(rows, i))

OnRemoveSource ==
    \E i \in 1..Len(form.sources) :
        FormEdit([form EXCEPT !.sources = on_remove_source(@, i)], "on_remove_source")

\* no drag in progress: self.dragged_row is None
NoDrag == 0

\* a drop that exchanges the dragged row and the target row
on_drop_exchange(rows, i, j) ==
    IF i # NoDrag /\ i # j
    THEN [k \in 1..Len(rows) |-> IF k = i THEN rows[j] ELSE IF k = j THEN rows[i] ELSE rows[k]]
    ELSE rows

\* on_drop with row i dragged onto row j: pop(source_idx), insert(target_idx, row);
\* a drop in the empty space below the rows has the last row as its target
on_drop(rows, i, j) ==
    IF i # NoDrag /\ i # j THEN InsertAt(RemoveAt(rows, i), j, rows[i]) ELSE rows

OnDrop ==
    \E i \in 1..Len(form.sources), j \in 1..Len(form.sources) :
        /\ i # j
        /\ FormEdit([form EXCEPT !.sources = on_drop(@, i, j)], "on_drop")

\* on_drop returning False: no drag in progress, or the target is the dragged row
OnDropRejected ==
    /\ ConfigPageShown
    /\ \E i \in {NoDrag} \cup (1..Len(form.sources)), j \in 1..Len(form.sources) :
        /\ i = NoDrag \/ i = j
        /\ ApplyView(enter([View EXCEPT !.form.sources = on_drop(@, i, j)], "on_drop"))
    /\ lastOp' = "on_drop: return False"
    /\ UNCHANGED <<app, edits, lastArgs, probe, execVars>>

\* on_preview_changed after the user left text in the buffer.  A text that
\* cannot be tokenized is a passing state of typing: it is not counted as an
\* edit, and it is entered from a text that can be tokenized
OnPreviewChanged ==
    /\ ConfigPageShown
    /\ \E text \in PreviewTexts \cup {preview_text \o " "} :
        /\ text # preview_text
        /\ LET split == shlex_split(text)
               args == IF split.tokens # <<>> /\ split.tokens[1] = "ratarmount"
                       THEN Tail(split.tokens) ELSE split.tokens
           IN  IF ~split.ok
               THEN /\ shlex_split(preview_text).ok
                    /\ ApplyView(on_preview_changed_call(
                           [View EXCEPT !.preview_text = text], [p \in {} |-> "none"]))
                    /\ lastOp' = "on_preview_changed: ValueError"
                    /\ UNCHANGED <<lastArgs, probe, edits>>
               ELSE /\ edits < MaxEdits
                    /\ \E fs \in ProbeOracles(args) : UpdateUi(args, fs, TRUE, text)
                    /\ lastOp' = "on_preview_changed"
                    /\ edits' = edits + 1
    /\ UNCHANGED <<app, execVars>>

(***************************************************************************)
(* Execution-side handlers and the environment.                            *)
(***************************************************************************)
ExecStep(w) ==
    /\ Commit(w)
    /\ UNCHANGED <<app, formVars, lastOp>>

\* on_mount: the Mount button of the config page or the Return shortcut of
\* the window; it returns at once when the preview cannot be tokenized or
\* holds no token
OnMount ==
    /\ UserCanAct
    /\ Len(procs) < MaxRuns
    /\ LET split == shlex_split(preview_text) IN
        IF split.ok /\ split.tokens # <<>>
        THEN /\ \E ok \in BOOLEAN : Commit(start_execution(World, split.tokens, ok))
             /\ lastOp' = "on_mount"
        ELSE /\ lastOp' = "on_mount: return"
             /\ UNCHANGED execVars
    /\ UNCHANGED <<app, formVars>>

RECURSIVE ChunksWritten(_)
ChunksWritten(ps) ==
    IF ps = <<>> THEN 0
    ELSE ps[1].written["stdout"] + ps[1].written["stderr"] + ChunksWritten(Tail(ps))

\* a running child writes its next chunk to a stream; the children write at
\* most n chunks in all
ChildWriteUpTo(n) ==
    \E pid \in 1..Len(procs), stream \in Streams :
        /\ procs[pid].alive
        /\ ChunksWritten(procs) < n
        /\ procs' = [procs EXCEPT
               ![pid].written[stream] = @ + 1,
               ![pid].pipe[stream] =
                   Append(@, chunk_text(pid, stream, procs[pid].written[stream] + 1))]
        /\ UNCHANGED <<app, formVars, lastOp, win, glib, host>>

ChildWrite == ChildWriteUpTo(MaxChunks)

\* a running child ends; its ends of the pipes are closed
ChildTerminate ==
    \E pid \in 1..Len(procs), cause \in Causes :
        /\ procs[pid].alive
        /\ procs' = [procs EXCEPT ![pid].alive = FALSE,
                                  ![pid].cause = Some(cause),
                                  ![pid].status = wait_status(cause)]
        /\ UNCHANGED <<app, formVars, lastOp, win, glib, host>>

\* the main loop dispatches an io watch: data to read, or hang-up
OnOutput ==
    /\ HostAlive
    /\ \E pid \in 1..Len(procs), stream \in Streams :
        /\ <<pid, stream>> \in glib.io_watch
        /\ procs[pid].pipe[stream] # <<>> \/ ~procs[pid].alive
        /\ ExecStep(on_output(World, pid, stream))

\* the main loop dispatches the child watch of a child that has ended
OnChildExit ==
    /\ HostAlive
    /\ \E pid \in glib.child_watch :
        /\ ~procs[pid].alive
        /\ ExecStep(on_child_exit(World, pid, procs[pid].status))

\* the 1000 ms timeout fires
CheckShowWindow ==
    /\ HostAlive
    /\ glib.timer = "armed"
    /\ ExecStep(check_show_window(World))

\* the Abort button of the execution page
OnAbort ==
    /\ UserCanAct
    /\ win.stack = "execution"
    /\ win.btn_abort_visible
    /\ ExecStep(on_abort(World))

\* the Close button of the execution page
OnCloseClicked ==
    /\ UserCanAct
    /\ win.stack = "execution"
    /\ ExecStep([on_close_clicked(World) EXCEPT !.host.exit_by = "on_close_clicked"])

\* the Cancel button of the config page or the Escape shortcut of the window
OnCancel ==
    /\ UserCanAct
    /\ ExecStep([on_cancel(World) EXCEPT !.host.exit_by = "on_cancel"])

(***************************************************************************)
(* Specifications.                                                         *)
(*   SpecForm follows the form and the preview of a window that is shown.  *)
(*   SpecMount follows the form and the preview up to the runs started     *)
(*   from them.                                                            *)
(*   SpecRun follows the executions started from a window.                 *)
(*   SpecOutput follows the output of the executions.                      *)
(*   SpecInvoke follows the command-line invocations.                      *)
(*   SpecDrop follows the rows of the source list.                         *)
(*   Spec is the whole program.                                            *)
(***************************************************************************)
FormHandlers ==
    \/ NextCommandLine
    \/ OnPasswordChanged
    \/ OnRecursiveToggled
    \/ OnDepthChanged
    \/ OnLazyToggled
    \/ OnStripToggled
    \/ OnOverlayChanged
    \/ OnUnionToggled
    \/ OnMountEntryChanged
    \/ OnSourceChanged
    \/ OnRemoveSource
    \/ OnDrop
    \/ OnPreviewChanged

ExecHandlers ==
    \/ OnMount
    \/ ChildWrite
    \/ ChildTerminate
    \/ OnOutput
    \/ OnChildExit
    \/ CheckShowWindow
    \/ OnAbort
    \/ OnCloseClicked
    \/ OnCancel

\* the source list: its rows from the command line, removed and dropped
NextDrop ==
    \/ FirstCommandLine(InitialArgs)
    \/ OnRemoveSource
    \/ OnDrop
    \/ OnDropRejected

SpecDrop == InitWith({FALSE}) /\ [][NextDrop]_vars

NextForm == FirstCommandLine(InitialArgs) \/ FormHandlers

SpecForm == InitWith({FALSE}) /\ [][NextForm]_vars

NextMount == FirstCommandLine(MountArgs) \/ FormHandlers \/ OnMount

SpecMount == InitWith({FALSE}) /\ [][NextMount]_vars

\* the runs and their output alone
NextOutput ==
    \/ FirstCommandLine(RunArgs)
    \/ OnMount
    \/ ChildWriteUpTo(MaxOutput)
    \/ ChildTerminate
    \/ OnOutput
    \/ OnChildExit

SpecOutput == InitWith(BOOLEAN) /\ [][NextOutput]_vars

\* the invocations and the runs they start
NextInvoke ==
    \/ FirstCommandLine(InitialArgs)
    \/ NextCommandLine
    \/ ChildTerminate
    \/ OnChildExit
    \/ CheckShowWindow

SpecInvoke == InitWith(BOOLEAN) /\ [][NextInvoke]_vars

NextRun == FirstCommandLine(RunArgs) \/ ExecHandlers

SpecRun == InitWith(BOOLEAN) /\ [][NextRun]_vars

Next == FirstCommandLine(InitialArgs) \/ FormHandlers \/ OnDropRejected \/ ExecHandlers

Spec == Init /\ [][Next]_vars

(***************************************************************************)
(* Properties of the argument model.                                       *)
(***************************************************************************)
\* the logical Configuration held by the form
Config(f) ==
    [sources |-> sources_args(f.sources),
     mountPoint |-> f.mount_entry,
     password |-> f.entry_password,
     recursive |-> f.check_recursive,
     recursionDepth |-> f.spin_depth,
     lazy |-> f.check_lazy,
     stripExtension |-> f.check_strip,
     writeOverlayPath |-> f.entry_write_overlay,
     unionMount |-> f.check_union,
     extraArgs |-> f.extra_args]

\* no source row other than the trailing one is empty
NoPlaceholder(f) ==
    \A i \in 1..(Len(f.sources) - 1) : f.sources[i] # ""

\* the arguments of the serialized form, as on_preview_changed reads them back
SerializedArgs(f) ==
    LET split == shlex_split(update_preview(f)) IN
    IF split.tokens # <<>> /\ split.tokens[1] = "ratarmount"
    THEN Tail(split.tokens) ELSE split.tokens

\* parse(serialize(c)) for the Configuration of form f under the oracle fs
RoundTrip(f, fs) == update_ui_from_args(SerializedArgs(f), fs)

\* every answer the filesystem can give to the parse of the serialized form
RoundTripOracles(f) == ProbeOracles(SerializedArgs(f))

KnownFlags ==
    {"-r", "--recursive", "--recursion-depth", "-l", "--lazy", "-s",
     "--strip-recursive-tar-extension", "--write-overlay", "--password",
     "--disable-union-mount"}

\* a Configuration the parser can produce under the oracle fs
Canonical(f, fs) ==
    LET srcs == sources_args(f.sources) IN
    /\ ~f.check_recursive => f.spin_depth = 0 /\ ~f.check_lazy /\ ~f.check_strip
    /\ \A i \in 1..Len(f.extra_args) :
           startswith(f.extra_args[i], "-") /\ f.extra_args[i] \notin KnownFlags
    /\ \A i \in 1..Len(srcs) : ~startswith(srcs[i], "-")
    /\ ~startswith(f.mount_entry, "-")
    /\ f.mount_entry = "" =>
           Len(srcs) <= 1 \/ path_kind(fs, srcs[Len(srcs)]) = "file"
    /\ f.mount_entry # "" =>
           Len(srcs) >= 1 /\ path_kind(fs, f.mount_entry) # "file"

\* C1 as stated: for every form without an empty placeholder and every answer
\* of the filesystem, parsing the serialized form gives the Configuration back.
C1_RoundTripEvery ==
    app.has_window =>
        \A fs \in RoundTripOracles(form) :
            NoPlaceholder(form) => Config(RoundTrip(form, fs)) = Config(form)

\* C1 amended: the round trip parse(serialize(c)) = c holds for every
\* Configuration without an empty placeholder that is canonical under the
\* oracle: recursion depth, lazy and strip are at their defaults when
\* recursive is off, every extra argument starts with "-" and is not a
\* recognized flag, no source and no mount point starts with "-", and the
\* sources and the mount point are split as the oracle splits them.
C1_RoundTripCanonical ==
    app.has_window =>
        \A fs \in RoundTripOracles(form) :
            (NoPlaceholder(form) /\ Canonical(form, fs)) =>
                Config(RoundTrip(form, fs)) = Config(form)

\* the serialized text of a canonical form with extra arguments, sources and
\* a mount point was parsed back by on_preview_changed and gave the same form
C1_Witness ==
    /\ lastOp = "on_preview_changed"
    /\ preview_text = update_preview(form) \o " "
    /\ lastArgs = Tail(build_cmd(form))
    /\ NoPlaceholder(form)
    /\ \E fs \in RoundTripOracles(form) : Canonical(form, fs)
    /\ form.extra_args # <<>>
    /\ sources_args(form.sources) # <<>>
    /\ form.mount_entry # ""

\* the handlers that leave the form as update_ui_from_args(lastArgs) built it
ParseOps == {"do_command_line", "on_preview_changed"}

\* the positional tokens of the last parsed argument list
LastPositional == scan_args(lastArgs, 1, reset_ui, <<>>).positional

\* C3: after a parse with two or more positional tokens, all of them are
\* sources and the mount point is empty exactly when the last one exists and
\* is not a directory; otherwise the last one is the mount point and the
\* others are the sources; a single positional token is a source, and with
\* none both are empty.
C3_PositionalSplit ==
    lastOp \in ParseOps =>
        LET pos == LastPositional
            n == Len(pos)
            all == form.sources = ensure_empty_row(pos) /\ form.mount_entry = ""
        IN  /\ (n >= 2 /\ probe = "file") => all
            /\ (n >= 2 /\ probe # "file") =>
                   /\ form.sources = ensure_empty_row(SubSeq(pos, 1, n - 1))
                   /\ form.mount_entry = pos[n]
            /\ n = 1 => all
            /\ n = 0 => form.sources = <<"">> /\ form.mount_entry = ""

\* a parse met two positional tokens whose last is an existing file
C3_Witness ==
    /\ lastOp \in ParseOps
    /\ Len(LastPositional) >= 2
    /\ probe = "file"
    /\ sources_args(form.sources) = LastPositional
    /\ form.mount_entry = ""

\* the groups of the serialized command, each from the fields it depends on
PasswordGroup(f) ==
    IF f.entry_password # "" THEN <<"--password", f.entry_password>> ELSE <<>>

RecursionGroup(f) ==
    IF f.check_recursive
    THEN <<"--recursive">>
         \o (IF f.spin_depth > 0 THEN <<"--recursion-depth", py_str(f.spin_depth)>> ELSE <<>>)
         \o (IF f.check_lazy THEN <<"--lazy">> ELSE <<>>)
         \o (IF f.check_strip THEN <<"--strip-recursive-tar-extension">> ELSE <<>>)
    ELSE <<>>

OverlayGroup(f) ==
    IF f.entry_write_overlay # "" THEN <<"--write-overlay", f.entry_write_overlay>> ELSE <<>>

UnionGroup(f) == IF f.check_union THEN <<>> ELSE <<"--disable-union-mount">>

SourcesGroup(f) == SelectSeq(f.sources, LAMBDA row : row # "")

MountGroup(f) == IF f.mount_entry # "" THEN <<f.mount_entry>> ELSE <<>>

\* the handlers that write the preview from the form
WriterOps ==
    {"do_command_line", "on_ui_change", "on_source_changed", "on_remove_source", "on_drop"}

\* C4: the tokens of the preview written from the form are, after the
\* program name, the password group, the recursion block, the overlay
\* group, the union flag, the extra arguments, the sources and the mount
\* point, in this order, each group contiguous.
C4_SerializationOrder ==
    lastOp \in WriterOps =>
        LET split == shlex_split(preview_text) IN
        /\ split.ok
        /\ split.tokens = <<"ratarmount">> \o PasswordGroup(form) \o RecursionGroup(form)
                              \o OverlayGroup(form) \o UnionGroup(form) \o form.extra_args
                              \o SourcesGroup(form) \o MountGroup(form)

\* a preview was written from a form in which every group is present
C4_Witness ==
    /\ lastOp \in WriterOps
    /\ form.entry_password # ""
    /\ form.check_recursive /\ form.spin_depth > 0 /\ form.check_lazy /\ form.check_strip
    /\ form.entry_write_overlay # ""
    /\ ~form.check_union
    /\ form.extra_args # <<>>
    /\ SourcesGroup(form) # <<>>
    /\ form.mount_entry # ""

(***************************************************************************)
(* Properties of the execution supervisor.                                 *)
(***************************************************************************)
Pids == 1..Len(procs)

\* C2 as stated: at most one child spawned by the window is running.
C2_NoOverlap ==
    Cardinality({pid \in Pids : procs[pid].alive}) <= 1

\* C5: the code reported for a child is 0 exactly when the child exited
\* normally with status 0, n when it exited normally with status n, and the
\* negated signal number when a signal ended it.
C5_TerminationClassification ==
    \A pid \in Pids :
        procs[pid].reported # None =>
            LET cause == procs[pid].cause[1]
                code == procs[pid].reported[1]
            IN  /\ code = 0 <=> cause = <<"exit", 0>>
                /\ cause[1] = "exit" => code = cause[2]
                /\ cause[1] \in {"signal", "core"} => code = 0 - cause[2]

\* a child killed by a signal with a core dump was reported, and the code is
\* the one the window recorded
C5_Witness ==
    \E pid \in Pids :
        /\ procs[pid].cause = Some(<<"core", 11>>)
        /\ procs[pid].reported = Some(0 - 11)
        /\ win.return_code = Some(0 - 11)

\* C6 as stated: when the window is closed after the latest run, the process
\* exits with n if that run ended with exit code n and with a non-zero code
\* if that run failed to spawn.
C6_HostExitCodes ==
    (host.exit_status # None /\ procs # <<>>) =>
        LET last == procs[Len(procs)]
            code == host.exit_status[1]
        IN  /\ ~last.spawned => code # 0
            /\ (last.reported # None /\ last.reported[1] >= 0) => code = last.reported[1]

\* C7 as stated: after a failed spawn no watcher is registered for the run,
\* child_pid is defined and does not name the run, and the log shows the
\* failure reason.
C7_SpawnFailure ==
    \A pid \in Pids :
        (~procs[pid].spawned /\ pid = Len(procs)) =>
            /\ pid \notin glib.child_watch
            /\ \A stream \in Streams : <<pid, stream>> \notin glib.io_watch
            /\ win.has_child_pid
            /\ win.child_pid # Some(pid)
            /\ \E i \in 1..Len(win.log_view) :
                   win.log_view[i] = "Error starting command: spawn failed"

\* a run of an auto-run window ended without success
FailedRun(pid) ==
    \/ ~procs[pid].spawned
    \/ procs[pid].reported # None /\ procs[pid].reported[1] # 0

\* C8: in auto-run mode, once a run has ended with a non-zero exit code, a
\* signal or a spawn failure, the window has been presented, whether the
\* timer has fired or not.
C8_FailureReveals ==
    app.force_auto_run => \A pid \in Pids : FailedRun(pid) => win.presented

\* the auto-run child failed before the timer fired and on_child_exit
\* presented the window
C8_Witness ==
    /\ app.force_auto_run
    /\ Len(procs) = 1
    /\ procs[1].reported # None /\ procs[1].reported[1] # 0
    /\ glib.timer = "armed"
    /\ win.presented
    /\ win.presented_by = {"on_child_exit"}

\* the supervisor holds a child that it has not seen exit
Running == win.has_child_pid /\ win.child_pid # None

\* the auto-run child succeeded before the timer fired
SucceededBeforeTimer ==
    /\ app.force_auto_run
    /\ Len(procs) = 1
    /\ host.exit_by = "on_child_exit"
    /\ glib.timer = "armed"

\* C9 as stated: the timer presents the window exactly when a child is
\* Running at that moment and never raises; when the auto-run child
\* succeeded before the timer fired the window was never presented and the
\* process exits with 0.
C9_TimerReveal ==
    [][/\ CheckShowWindow =>
              /\ host'.errors = host.errors
              /\ "check_show_window" \in win'.presented_by <=> Running
       /\ SucceededBeforeTimer' => (~win'.presented /\ host'.exit_status = Some(0))]_vars

\* C10 as stated: an abort requested while a child is still running sends
\* the interrupt signal to a child that is still running.
C10_AbortReachesChild ==
    [][OnAbort =>
          ((\E pid \in Pids : procs[pid].alive) =>
               \E pid \in Pids :
                   /\ procs[pid].alive
                   /\ win.child_pid = Some(pid)
                   /\ procs'[pid].sigint)]_vars

\* the supervisor's own record of the run: child_pid, return_code, the hidden
\* flag and the registered watchers
SupervisorState ==
    <<win.has_child_pid, win.child_pid, win.return_code, win.is_hidden_execution, glib>>

C12_LivenessConsistent ==
    \A pid \in Pids : procs[pid].reported # None => win.child_pid # Some(pid)

\* on_child_exit reported a failed child, the window stays open and child_pid
\* is None
C12_Witness ==
    /\ HostAlive
    /\ \E pid \in Pids :
           /\ procs[pid].reported # None
           /\ win.return_code = procs[pid].reported
    /\ win.has_child_pid
    /\ win.child_pid = None

\* C13 as stated: once the latest run has ended, by the exit of its child
\* being dispatched or by a failed spawn, an outcome is recorded and it is
\* the outcome of that run.
C13_OneOutcomePerRun ==
    procs # <<>> =>
        LET last == procs[Len(procs)] IN
        /\ ~last.spawned => win.return_code # None
        /\ last.reported # None => win.return_code = last.reported

\* C14 as stated: the source list of the window is never empty and its last
\* row is the empty placeholder.
C14_TrailingPlaceholder ==
    app.has_window =>
        /\ form.sources # <<>>
        /\ form.sources[Len(form.sources)] = ""

\* a text with an odd number of single quotes and neither a double quote nor
\* a backslash: its last quotation is not terminated
UnterminatedQuote(text) ==
    /\ \A i \in 1..Len(text) : Char(text, i) \notin {"\"", "\\"}
    /\ Cardinality({i \in 1..Len(text) : Char(text, i) = "'"}) % 2 = 1

\* C15: a preview text with an unterminated quote is ignored: the change that
\* leaves it in the buffer changes neither the form nor the supervisor and
\* raises no error, Mount on it starts nothing and changes nothing, and the
\* next change to a text that can be tokenized is parsed into the form.
C15_MalformedIgnored ==
    [][/\ (UnterminatedQuote(preview_text') /\ preview_text' # preview_text) =>
              /\ form' = form
              /\ updating_ui' = updating_ui
              /\ updating_preview' = updating_preview
              /\ UNCHANGED <<app, execVars>>
       /\ (UnterminatedQuote(preview_text) /\ OnMount) =>
              UNCHANGED <<app, formVars, execVars>>
       /\ (UnterminatedQuote(preview_text) /\ ~UnterminatedQuote(preview_text')
             /\ lastOp' = "on_preview_changed") =>
              \E fs \in ProbeOracles(preview_args(preview_text')) :
                  form' = update_ui_from_args(preview_args(preview_text'), fs)]_vars

\* Mount was pressed on a text with an unterminated quote that the user had
\* left in the preview of a form that is not the empty one: nothing started
C15_Witness ==
    /\ lastOp = "on_mount: return"
    /\ UnterminatedQuote(preview_text)
    /\ form # reset_ui
    /\ procs = <<>>
    /\ host.errors = {}

\* how often handler h was entered in the chain of calls of the last change
Calls(h) == Cardinality({i \in DOMAIN chain : chain[i] = h})

\* the handlers of a change made in the form
FormSideOps == WriterOps \ {"do_command_line"}

\* the longest chain of calls one change starts: update_ui_from_args,
\* on_recursive_toggled, on_ui_change, update_preview, set_text,
\* on_preview_changed
LongestChain == 6

\* C16: between handlers both flags are false; a change of the form writes
\* the preview once and that text is not parsed back; a user's edit of the
\* preview is parsed once and the preview is not written; a command line is
\* parsed once and written once; no chain of calls is longer than six.
C16_LoopAvoidance ==
    /\ ~updating_ui
    /\ ~updating_preview
    /\ Len(chain) <= LongestChain
    /\ lastOp \in FormSideOps =>
           Calls("set_text") = 1 /\ Calls("update_ui_from_args") = 0
    /\ lastOp = "on_preview_changed" =>
           Calls("update_ui_from_args") = 1 /\ Calls("set_text") = 0
    /\ lastOp = "on_preview_changed: ValueError" =>
           Calls("update_ui_from_args") = 0 /\ Calls("set_text") = 0
    /\ lastOp = "do_command_line" =>
           Calls("update_ui_from_args") = 1 /\ Calls("set_text") = 1

\* a change of the form wrote the preview, the buffer emitted "changed" and
\* on_preview_changed returned at once
C16_Witness ==
    /\ lastOp \in FormSideOps
    /\ \E i \in DOMAIN chain :
           /\ chain[i] = "set_text"
           /\ i < Len(chain)
           /\ chain[i + 1] = "on_preview_changed"
           /\ i + 1 = Len(chain)
    /\ preview_text = update_preview(form)

\* the flags that take the next token as their value
ValueFlags == {"--recursion-depth", "--write-overlay", "--password"}

\* the widget a value flag sets
FieldOf(f, flag) ==
    CASE flag = "--password" -> f.entry_password
      [] flag = "--write-overlay" -> f.entry_write_overlay
      [] flag = "--recursion-depth" -> f.spin_depth

\* token i of args is taken as the value of the token before it: that token
\* is a value flag, is not itself taken as a value, and, for
\* --recursion-depth, token i is an integer
RECURSIVE ConsumedAsValue(_, _)
ConsumedAsValue(args, i) ==
    /\ i > 1
    /\ args[i - 1] \in ValueFlags
    /\ args[i - 1] = "--recursion-depth" => py_int(args[i]).ok
    /\ ~ConsumedAsValue(args, i - 1)

\* the last token of the last parsed argument list
LastToken == lastArgs[Len(lastArgs)]

\* C17 as stated: after a parse whose last token is a value flag, that token
\* is the last of extraArgs and its field has the reset value.
C17_DanglingLiteral ==
    (lastOp \in ParseOps /\ lastArgs # <<>> /\ LastToken \in ValueFlags) =>
        /\ form.extra_args # <<>>
        /\ form.extra_args[Len(form.extra_args)] = LastToken
        /\ FieldOf(form, LastToken) = FieldOf(reset_ui, LastToken)

\* C17: after a parse whose last token is a value flag that is not itself
\* taken as the value of the flag before it, that token is appended to the
\* extraArgs of the tokens before it and its field has the value those
\* tokens gave it (the reset value when none did).
C17_DanglingValueFlag ==
    (lastOp \in ParseOps /\ lastArgs # <<>> /\ LastToken \in ValueFlags
       /\ ~ConsumedAsValue(lastArgs, Len(lastArgs))) =>
        LET before == scan_args(SubSeq(lastArgs, 1, Len(lastArgs) - 1),
                                1, reset_ui, <<>>).form
        IN  /\ form.extra_args = Append(before.extra_args, LastToken)
            /\ FieldOf(form, LastToken) = FieldOf(before, LastToken)
            /\ (\A i \in 1..(Len(lastArgs) - 1) :
                    lastArgs[i] = LastToken => ConsumedAsValue(lastArgs, i))
                   => FieldOf(form, LastToken) = FieldOf(reset_ui, LastToken)

\* a command line ended in --password after an earlier --password had taken
\* its value: the flag is in extraArgs and the password is the earlier value
C17_Witness ==
    /\ lastOp \in ParseOps
    /\ Len(lastArgs) >= 3
    /\ LastToken = "--password"
    /\ ~ConsumedAsValue(lastArgs, Len(lastArgs))
    /\ form.extra_args # <<>>
    /\ form.extra_args[Len(form.extra_args)] = "--password"
    /\ form.entry_password # ""

\* a token with a character that is no digit, sign, underscore or whitespace:
\* int() raises ValueError on it
NonInteger(t) ==
    \E k \in 1..Len(t) : Char(t, k) \notin Digits \cup PyWhitespace \cup {"+", "-", "_"}

\* the places of the last parsed argument list where the scan meets
\* --recursion-depth as a flag and the next token is no integer
BadDepthAt ==
    {i \in 1..(Len(lastArgs) - 1) :
        /\ lastArgs[i] = "--recursion-depth"
        /\ ~ConsumedAsValue(lastArgs, i)
        /\ NonInteger(lastArgs[i + 1])}

\* C18: where the scan meets --recursion-depth before a token that is no
\* integer, the form is the one the scan builds by appending the flag alone
\* to extraArgs, leaving the depth as the tokens before it set it, and going
\* on with the following token by the normal rules, so that a following
\* token without a dash is a source or the mount point.
C18_BadInteger ==
    lastOp \in ParseOps =>
        \A i \in BadDepthAt :
            LET pre == scan_args(SubSeq(lastArgs, 1, i - 1), 1, reset_ui, <<>>)
                demoted == [pre.form EXCEPT !.extra_args = Append(@, "--recursion-depth")]
                rest == scan_args(lastArgs, i + 1, demoted, pre.positional)
                next == lastArgs[i + 1]
            IN  /\ form.extra_args = rest.form.extra_args
                /\ form.spin_depth = rest.form.spin_depth
                /\ form.entry_password = rest.form.entry_password
                /\ form.entry_write_overlay = rest.form.entry_write_overlay
                /\ form.check_recursive = rest.form.check_recursive
                /\ form.check_lazy = rest.form.check_lazy
                /\ form.check_strip = rest.form.check_strip
                /\ form.check_union = rest.form.check_union
                /\ sources_args(form.sources) \o MountGroup(form) = rest.positional
                /\ Len(form.extra_args) > Len(pre.form.extra_args)
                /\ form.extra_args[Len(pre.form.extra_args) + 1] = "--recursion-depth"
                /\ ~startswith(next, "-") =>
                       \/ \E k \in DOMAIN form.sources : form.sources[k] = next
                       \/ form.mount_entry = next
                /\ i + 1 = Len(lastArgs) => form.spin_depth = pre.form.spin_depth
                /\ host.errors = {}

\* a parse met --recursion-depth before a token that is no integer and has
\* no dash: the flag is in extraArgs and the token is a source
C18_Witness ==
    /\ lastOp \in ParseOps
    /\ \E i \in BadDepthAt :
           /\ ~startswith(lastArgs[i + 1], "-")
           /\ \E k \in DOMAIN form.sources : form.sources[k] = lastArgs[i + 1]
    /\ \E k \in DOMAIN form.extra_args : form.extra_args[k] = "--recursion-depth"

\* the tokens of args at the places idxs, from place i on, in order
RECURSIVE TokensAt(_, _, _)
TokensAt(args, idxs, i) ==
    IF i > Len(args) THEN <<>>
    ELSE (IF i \in idxs THEN <<args[i]>> ELSE <<>>) \o TokensAt(args, idxs, i + 1)

\* the places of the last parsed argument list that hold a token with a dash
\* that is no known flag and is not taken as a value
UnknownFlagAt ==
    {i \in DOMAIN lastArgs :
        /\ startswith(lastArgs[i], "-")
        /\ lastArgs[i] \notin KnownFlags
        /\ ~ConsumedAsValue(lastArgs, i)}

\* the places that hold a token without a dash that is not taken as a value
PositionalAt ==
    {i \in DOMAIN lastArgs :
        /\ ~startswith(lastArgs[i], "-")
        /\ ~ConsumedAsValue(lastArgs, i)}

NotKnownFlag(t) == t \notin KnownFlags

\* C19: after a parse, the tokens of extraArgs that are no known flags are
\* the tokens with a dash that match no known flag and were not taken as a
\* value, verbatim and in their order; the positional buffer holds the tokens
\* without a dash that were not taken as a value, in their order.
C19_PassThrough ==
    lastOp \in ParseOps =>
        /\ SelectSeq(form.extra_args, NotKnownFlag) = TokensAt(lastArgs, UnknownFlagAt, 1)
        /\ LastPositional = TokensAt(lastArgs, PositionalAt, 1)
        /\ sources_args(form.sources) \o MountGroup(form)
             = sources_args(TokensAt(lastArgs, PositionalAt, 1))

\* a parse of a command line with two different unrecognized flags, two
\* positional tokens and a token with a dash taken as a value
C19_Witness ==
    /\ lastOp \in ParseOps
    /\ \E i, j \in UnknownFlagAt : i < j /\ lastArgs[i] # lastArgs[j]
    /\ \E i, j \in PositionalAt : i < j /\ lastArgs[i] # lastArgs[j]
    /\ \E i \in DOMAIN lastArgs : ConsumedAsValue(lastArgs, i) /\ startswith(lastArgs[i], "-")
    /\ Len(form.extra_args) >= 2

\* the tokens of the preview after the program name
PreviewTokens == Tail(shlex_split(preview_text).tokens)

\* the tokens of the preview before the extra arguments, the sources and the
\* mount point of the form
PreviewHead ==
    SubSeq(PreviewTokens, 1,
           Len(PreviewTokens) - Len(form.extra_args)
             - Len(sources_args(form.sources)) - Len(MountGroup(form)))

\* the tokens after the extra arguments: the sources and the mount point
PreviewPaths ==
    SubSeq(PreviewTokens, Len(PreviewHead) + Len(form.extra_args) + 1, Len(PreviewTokens))

\* the flags among the tokens of head from place i on; the token after a
\* value flag is its value
RECURSIVE HeadFlags(_, _)
HeadFlags(head, i) ==
    IF i > Len(head) THEN {}
    ELSE {head[i]} \cup HeadFlags(head, IF head[i] \in ValueFlags THEN i + 2 ELSE i + 1)

\* C20: in a preview written from the form, --recursion-depth is emitted only
\* when recursive is active and the depth is above 0, --lazy and
\* --strip-recursive-tar-extension only when recursive is active and the
\* option is set, --disable-union-mount only when union mount is off,
\* --password and --write-overlay only when their text is not empty, and no
\* source or mount point token is empty.
C20_ConditionalEmission ==
    lastOp \in WriterOps =>
        LET flags == HeadFlags(PreviewHead, 1) IN
        /\ "--recursion-depth" \in flags => form.check_recursive /\ form.spin_depth > 0
        /\ "--lazy" \in flags => form.check_recursive /\ form.check_lazy
        /\ "--strip-recursive-tar-extension" \in flags =>
               form.check_recursive /\ form.check_strip
        /\ "--disable-union-mount" \in flags => ~form.check_union
        /\ "--password" \in flags => form.entry_password # ""
        /\ "--write-overlay" \in flags => form.entry_write_overlay # ""
        /\ flags \subseteq {"--password", "--recursive", "--recursion-depth", "--lazy",
                            "--strip-recursive-tar-extension", "--write-overlay",
                            "--disable-union-mount"}
        /\ \A k \in DOMAIN PreviewPaths : PreviewPaths[k] # ""

\* a preview written for a form with recursive active, depth 0 and lazy set
\* and with an empty row in the source list: --lazy is emitted, no depth
C20_Witness ==
    /\ lastOp \in WriterOps
    /\ form.check_recursive
    /\ form.spin_depth = 0
    /\ form.check_lazy
    /\ "--lazy" \in HeadFlags(PreviewHead, 1)
    /\ "--recursion-depth" \notin HeadFlags(PreviewHead, 1)
    /\ PreviewPaths # <<>>
    /\ \E k \in DOMAIN form.sources : form.sources[k] = ""

\* the filesystems over a.tar and b.tar that answer about b.tar what the
\* last parse was answered; the parse asks nothing about a.tar
FileCaseFilesystems ==
    {fs \in [{"a.tar", "b.tar"} -> Kinds] : fs["b.tar"] = probe}

\* the last parse was the parse of the two positional tokens a.tar and b.tar
FileCaseParsed == lastOp \in ParseOps /\ lastArgs = <<"a.tar", "b.tar">>

\* C21 as stated: after the parse of a.tar b.tar in a filesystem where a.tar
\* is a regular file, both are sources and the mount point is empty.
C21_FileCaseAsStated ==
    FileCaseParsed =>
        \A fs \in FileCaseFilesystems :
            fs["a.tar"] = "file" =>
                /\ form.sources = <<"a.tar", "b.tar", "">>
                /\ form.mount_entry = ""

\* C21: after the parse of a.tar b.tar in a filesystem where b.tar is a
\* regular file, both are sources and the mount point is empty, whatever
\* a.tar is; the form does not depend on a.tar.
C21_FileCase ==
    FileCaseParsed =>
        \A fs \in FileCaseFilesystems :
            /\ form = update_ui_from_args(lastArgs, fs)
            /\ fs["b.tar"] = "file" =>
                   /\ form.sources = <<"a.tar", "b.tar", "">>
                   /\ form.mount_entry = ""

\* a.tar b.tar was parsed where b.tar is a regular file
C21_Witness ==
    /\ FileCaseParsed
    /\ probe = "file"
    /\ form.sources = <<"a.tar", "b.tar", "">>
    /\ form.mount_entry = ""

\* the chunks a to b that child pid wrote to stream s, in the order written
ChunkSeq(pid, s, a, b) == [k \in 1..(b - a + 1) |-> chunk_text(pid, s, a + k - 1)]

\* the texts of seq that are chunks child pid wrote to stream s
FromChild(seq, pid, s) ==
    SelectSeq(seq, LAMBDA t : \E k \in 1..procs[pid].written[s] : t = chunk_text(pid, s, k))

\* the number of chunks of stream s of child pid that on_output has read
Delivered(pid, s) == procs[pid].written[s] - Len(procs[pid].pipe[s])

\* what was relayed to sys.stdout or sys.stderr
Relayed(s) == IF s = "stdout" THEN host.stdout ELSE host.stderr

\* the chunks of every descriptor were relayed in the order written, the
\* log shows the latest of them in that order, the rest is still unread
OutputInOrder ==
    \A pid \in Pids, s \in Streams :
        /\ FromChild(Relayed(s), pid, s) = ChunkSeq(pid, s, 1, Delivered(pid, s))
        /\ \E d \in 0..Delivered(pid, s) :
               FromChild(win.log_view, pid, s) = ChunkSeq(pid, s, d + 1, Delivered(pid, s))
        /\ procs[pid].pipe[s] = ChunkSeq(pid, s, Delivered(pid, s) + 1, procs[pid].written[s])

\* a step that ends a watch ends the watch of one descriptor, at its end of
\* stream, and changes nothing else; a watch that ended stays ended; a step
\* that reads a chunk ends no watch
EndOfStreamStep ==
    \A pid \in Pids, s \in Streams :
        /\ (<<pid, s>> \in glib.io_watch /\ <<pid, s>> \notin glib'.io_watch) =>
               /\ procs[pid].pipe[s] = <<>>
               /\ ~procs[pid].alive
               /\ glib'.io_watch = glib.io_watch \ {<<pid, s>>}
               /\ UNCHANGED <<win, procs, host>>
        /\ <<pid, s>> \notin glib.io_watch => <<pid, s>> \notin glib'.io_watch
        /\ (pid \in DOMAIN procs' /\ Len(procs'[pid].pipe[s]) < Len(procs[pid].pipe[s])) =>
               /\ <<pid, s>> \in glib.io_watch
               /\ glib'.io_watch = glib.io_watch

\* C22: at the end of stream of one descriptor only its watch is removed,
\* once, and the watch of the other descriptor stays; the chunks of each
\* descriptor reach the log and the passthrough stream in the order read.
C22_IndependentEndOfStream == [] OutputInOrder /\ [][EndOfStreamStep]_vars

\* the stdout watch of a child has ended at end of stream while its stderr
\* watch is still registered with a chunk to read, after two stderr chunks
\* were relayed
C22_Witness ==
    \E pid \in Pids :
        /\ <<pid, "stdout">> \notin glib.io_watch
        /\ <<pid, "stderr">> \in glib.io_watch
        /\ procs[pid].spawned
        /\ procs[pid].pipe["stderr"] # <<>>
        /\ Delivered(pid, "stderr") = 2
        /\ HostAlive

\* C23 as stated: the argv of every call of start_execution is "ratarmount"
\* followed by the serialization of the form as it is at that call.
C23_ExecutedIsSerialized ==
    [][Len(procs') > Len(procs) =>
           procs'[Len(procs')].argv = build_cmd(form')]_vars

\* the filesystems that answered the last parse as it was answered and also
\* answer the parse of the serialized form
NormalizationOracles ==
    {fs \in [ProbedPaths(lastArgs) \cup ProbedPaths(SerializedArgs(form)) -> Kinds] :
        \A p \in ProbedPaths(lastArgs) : fs[p] = probe}

\* C24 as stated: after a parse, serializing the form, parsing the result
\* under the same filesystem and serializing again gives the same tokens, and
\* the second parse has the sources and the mount point of the first.
C24_NormalizationIdempotent ==
    lastOp \in ParseOps =>
        \A fs \in NormalizationOracles :
            /\ build_cmd(RoundTrip(form, fs)) = build_cmd(form)
            /\ sources_args(RoundTrip(form, fs).sources) \o MountGroup(RoundTrip(form, fs))
                 = sources_args(form.sources) \o MountGroup(form)

\* C25 as stated: when the host has exited on the successful exit of a
\* child, every chunk that child wrote has been read by on_output, so that
\* it is in the passthrough stream, and none is left unread in its pipes.
C25_NoOutputLost ==
    host.exit_by = "on_child_exit" =>
        \A pid \in Pids, s \in Streams :
            procs[pid].reported = Some(0) =>
                /\ procs[pid].pipe[s] = <<>>
                /\ FromChild(Relayed(s), pid, s) = ChunkSeq(pid, s, 1, procs[pid].written[s])

\* C26 as stated: when the host has exited through on_close_clicked or
\* on_cancel, the run started last has ended with a recorded outcome and the
\* exit status is that outcome (its low byte); it is 0 only when no run was
\* started or that run succeeded.
C26_CloseReflectsLatestRun ==
    host.exit_by \in {"on_close_clicked", "on_cancel"} =>
        IF procs = <<>> THEN host.exit_status = Some(0)
        ELSE LET last == procs[Len(procs)] IN
             /\ ~last.alive
             /\ last.reported # None
             /\ host.exit_status = Some(last.reported[1] % 256)

\* C27: after every operation on the form side (a field edit, the edit of a
\* source text, a removal, a drop that moved a row, a command line) the
\* preview text can be tokenized and its tokens are "ratarmount" followed by
\* the serialization of the form as it is now.
C27_PreviewFollowsForm ==
    lastOp \in WriterOps =>
        /\ shlex_split(preview_text).ok
        /\ shlex_split(preview_text).tokens = build_cmd(form)

\* a drop moved a row of a list with two sources and the preview shows the
\* sources in the new order
C27_Witness ==
    /\ lastOp = "on_drop"
    /\ Len(sources_args(form.sources)) >= 2
    /\ form.sources[Len(form.sources)] # ""
    /\ shlex_split(preview_text).tokens = build_cmd(form)

\* C28 as stated: every invocation handled by do_command_line under forced
\* auto-run, the first one and every later one, starts an execution of
\* "ratarmount" followed by the arguments of that invocation.
C28_ForcedAlwaysRuns ==
    [][(/\ app.force_auto_run
        /\ NextCommandLine \/ (~app.has_window /\ app'.has_window)) =>
           /\ Len(procs') = Len(procs) + 1
           /\ procs'[Len(procs')].argv = <<"ratarmount">> \o lastArgs']_vars

\* C29: a parse builds the Configuration fresh: whatever the form held
\* before, the form after update_ui_from_args(args) is the one the same
\* tokens and the same filesystem give on a newly constructed window, in
\* every field.
C29_ParseIsFresh ==
    lastOp \in ParseOps =>
        \E fs \in ProbeOracles(lastArgs) :
            /\ ProbeOf(lastArgs, fs) = probe
            /\ form = update_ui_from_args(lastArgs, fs)

\* a later invocation with one source was parsed into a window that had
\* been edited or invoked before: only that source is in the form
C29_Witness ==
    /\ lastOp = "do_command_line"
    /\ edits >= 1
    /\ lastArgs = <<"b.tar">>
    /\ form = [reset_ui EXCEPT !.sources = <<"b.tar", "">>]

\* the rows of a list as a bag
RowBag(rows) == [r \in {rows[k] : k \in DOMAIN rows} |->
                    Cardinality({k \in DOMAIN rows : rows[k] = r})]

\* what on_drop makes of the rows of the form for every dragged row i and
\* every target row j
MoveOfRows ==
    LET rows == form.sources IN
    \A i \in {NoDrag} \cup DOMAIN rows, j \in DOMAIN rows :
        LET moved == on_drop(rows, i, j) IN
        IF i # NoDrag /\ i # j
        THEN /\ RowBag(moved) = RowBag(rows)
             /\ Len(moved) = Len(rows)
             /\ moved[j] = rows[i]
             /\ RemoveAt(moved, j) = RemoveAt(rows, i)
        ELSE moved = rows

\* what a drop changes in the window
DropStep ==
    /\ OnDrop =>
           /\ [form' EXCEPT !.sources = form.sources] = form
           /\ RowBag(form'.sources) = RowBag(form.sources)
           /\ preview_text' = update_preview(form')
    /\ OnDropRejected =>
           /\ form' = form
           /\ preview_text' = preview_text

\* C30: a drop of row i on another row j leaves the same rows, the dragged
\* one at index j and the others in their order; a drop with no drag in
\* progress or on the dragged row changes neither the list nor the preview;
\* no field but the order of the sources changes.
C30_MoveIsReordering == [] MoveOfRows /\ [][DropStep]_vars

\* the first of two sources was dropped on the placeholder below them
C30_Witness ==
    /\ lastOp = "on_drop"
    /\ form.sources = <<"b.tar", "", "a.tar">>
    /\ preview_text = update_preview(form)

====
